---- MODULE Spec2Model ----
(***************************************************************************)
(* Model of list-objects-filter-options.c: the parser of object filter     *)
(* specifications ("blob:none", "tree:<n>", "combine:<a>+<b>", ...), the   *)
(* serializer, the recursive release of a parsed tree, and the two partial *)
(* clone operations that store and load the default filter text.           *)
(*                                                                         *)
(* Texts are C strings: sequences of byte values 1..255.  A pointer is a   *)
(* record whose ptr field is the address of the buffer (0 is NULL) next to *)
(* the contents of the buffer it points to.                                *)
(***************************************************************************)
EXTENDS Integers, Sequences, FiniteSets, TLC

VARIABLES
    fo,                                 \* the caller's struct list_objects_filter_options
    heap,                               \* addresses of the buffers malloc'ed and not freed
    core_partial_clone_filter_default,  \* global: cached default filter text
    repository_format_partial_clone,    \* global: recorded promisor remote name
    config,                             \* the three keys git_config_set() writes
    charSigned,                         \* build: is plain 'char' a signed type
    odb,                                \* object names get_oid_with_context() resolves
    dead,                               \* "no", or how the process ended: "die", "BUG"
    input,                              \* the text under test (ParseSpec, ValidatorSpec)
    last                                \* record of the last operation and its pre-state

vars == <<fo, heap, core_partial_clone_filter_default,
          repository_format_partial_clone, config, charSigned, odb, dead,
          input, last>>

(***************************************************************************)
(* Bounds of the model.                                                    *)
(***************************************************************************)
MaxFrags == 2       \* fragments concatenated into one input text
MaxTokLen == 2      \* bytes in a token given to the validator alone
MaxLive == 3        \* live buffers above which no new root buffer is allocated

(***************************************************************************)
(* String literals of the source, as bytes.                                *)
(***************************************************************************)
STR_blob_none    == <<98, 108, 111, 98, 58, 110, 111, 110, 101>>
STR_blob_limit   == <<98, 108, 111, 98, 58, 108, 105, 109, 105, 116, 61>>
STR_tree         == <<116, 114, 101, 101, 58>>
STR_sparse_oid   == <<115, 112, 97, 114, 115, 101, 58, 111, 105, 100, 61>>
STR_sparse_path  == <<115, 112, 97, 114, 115, 101, 58, 112, 97, 116, 104, 61>>
STR_combine      == <<99, 111, 109, 98, 105, 110, 101, 58>>

\* "~`!@#$^&*()[]{}\\;'\",<>?"
RESERVED_NON_WS ==
    <<126, 96, 33, 64, 35, 36, 94, 38, 42, 40, 41, 91, 93, 123, 125, 92, 59,
      39, 34, 44, 60, 62, 63>>

Range(s) == {s[i] : i \in 1..Len(s)}

StartsWith(s, p) == Len(s) >= Len(p) /\ SubSeq(s, 1, Len(p)) = p

\* skip_prefix(): what follows the prefix p of s
skip_prefix(s, p) == SubSeq(s, Len(p) + 1, Len(s))

(***************************************************************************)
(* Pointers and the empty (zeroed) struct.                                 *)
(***************************************************************************)
NULL_STR == [ptr |-> 0, str |-> <<>>]
NULL_OID == [ptr |-> 0, oid |-> <<>>]
NULL_SUB == [ptr |-> 0, elems |-> <<>>]

\* memset(filter_options, 0, sizeof(*filter_options))
EmptyNode ==
    [choice |-> "LOFC_DISABLED", filter_spec |-> NULL_STR,
     sparse_oid_value |-> NULL_OID, blob_limit_value |-> 0,
     tree_exclude_depth |-> 0, sub_nr |-> 0, sub_alloc |-> 0,
     sub |-> NULL_SUB]

\* a global 'char *': NULL, or a string (which may be "")
G_NULL == [isnull |-> TRUE, str |-> <<>>]
G(s) == [isnull |-> FALSE, str |-> s]

\* malloc(): the lowest address not in use
NewPtr(h) ==
    CHOOSE p \in 1..(Cardinality(h) + 1) :
        p \notin h /\ \A q \in 1..(p - 1) : q \in h

\* the context threaded through one operation: the heap, the addresses
\* freed in order, whether an address was freed that was not allocated,
\* the error buffer, and the (token, decoded text) pairs handed to the
\* recursive parser
Cx(h) == [heap |-> h, freed |-> <<>>, dfree |-> FALSE, errbuf |-> <<>>,
          handed |-> <<>>]

\* free(p); free(NULL) does nothing
free(p, cx) ==
    IF p = 0 THEN cx
    ELSE [cx EXCEPT !.heap = @ \ {p},
                    !.freed = Append(@, p),
                    !.dfree = @ \/ p \notin cx.heap]

\* strbuf_addstr(errbuf, msg) / strbuf_addf(errbuf, msg, payload)
AddErr(cx, msg, payload) ==
    [cx EXCEPT !.errbuf = Append(@, <<msg, payload>>)]

(***************************************************************************)
(* Library functions the file calls.                                       *)
(***************************************************************************)
\* The value of a singleton set.  A result that is used more than once is
\* bound as  The({ body : r \in {expr} })  so that expr is computed once.
The(S) == CHOOSE v \in S : TRUE

\* the k-th smallest member of the set of numbers E
Kth(E, k) == CHOOSE e \in E : Cardinality({x \in E : x <= e}) = k

IsDigit(c) == c >= 48 /\ c <= 57

\* the decimal value of the first i digits of v
RECURSIVE DecValue(_, _)
DecValue(v, i) ==
    IF i = 0 THEN 0 ELSE 10 * DecValue(v, i - 1) + (v[i] - 48)

\* git_parse_ulong(): a decimal unsigned number; anything else fails and
\* leaves the destination untouched
git_parse_ulong(v) ==
    IF v # <<>> /\ \A i \in 1..Len(v) : IsDigit(v[i])
    THEN [ok |-> TRUE, val |-> DecValue(v, Len(v))]
    ELSE [ok |-> FALSE, val |-> 0]

HexVal(c) ==
    IF c >= 48 /\ c <= 57 THEN c - 48
    ELSE IF c >= 65 /\ c <= 70 THEN c - 55
    ELSE IF c >= 97 /\ c <= 102 THEN c - 87
    ELSE -1

\* is there a %XY escape (two hex digits, not %00) at position i of s
IsEscape(s, i) ==
    /\ s[i] = 37
    /\ i + 2 <= Len(s)
    /\ HexVal(s[i + 1]) >= 0
    /\ HexVal(s[i + 2]) >= 0
    /\ 16 * HexVal(s[i + 1]) + HexVal(s[i + 2]) > 0

\* the decoding of s from position i on
RECURSIVE url_decode_from(_, _)
url_decode_from(s, i) ==
    IF i > Len(s) THEN <<>>
    ELSE IF IsEscape(s, i)
    THEN <<16 * HexVal(s[i + 1]) + HexVal(s[i + 2])>> \o url_decode_from(s, i + 3)
    ELSE <<s[i]>> \o url_decode_from(s, i + 1)

\* url_percent_decode(): every %XY escape becomes the byte 0xXY; every
\* other byte, '+' included, is copied
url_percent_decode(s) == url_decode_from(s, 1)

\* strbuf_split_str(str, terminator, 0): while input remains, the next
\* piece runs up to and including the next terminator (or to the end), so
\* every piece but possibly the last ends with the terminator, and the
\* empty string gives no piece at all
strbuf_split_str(str, terminator) ==
    LET ends == {i \in 1..Len(str) : str[i] = terminator \/ i = Len(str)}
    IN  [k \in 1..Cardinality(ends) |->
            SubSeq(str, IF k = 1 THEN 1 ELSE Kth(ends, k - 1) + 1, Kth(ends, k))]

\* get_oid_with_context(): 0 (found) exactly for the names in odb
get_oid_with_context(name) == IF name \in odb THEN 0 ELSE -1

(***************************************************************************)
(* has_reserved_character()                                                *)
(***************************************************************************)
\* the value of the byte b read through a 'char'
CharValue(b) == IF charSigned /\ b >= 128 THEN b - 256 ELSE b

\* *c <= ' ' || strchr(RESERVED_NON_WS, *c)
IsReservedChar(b) == CharValue(b) <= 32 \/ b \in Range(RESERVED_NON_WS)

\* ret 1 and the character put in the message, or ret 0
has_reserved_character(sub_spec) ==
    IF \E i \in 1..Len(sub_spec) : IsReservedChar(sub_spec[i])
    THEN LET i == CHOOSE k \in 1..Len(sub_spec) :
                      /\ IsReservedChar(sub_spec[k])
                      /\ \A j \in 1..(k - 1) : ~IsReservedChar(sub_spec[j])
         IN  [ret |-> 1, ch |-> sub_spec[i]]
    ELSE [ret |-> 0, ch |-> 0]

(***************************************************************************)
(* list_objects_filter_release()                                           *)
(***************************************************************************)
RECURSIVE list_objects_filter_release(_, _)
RECURSIVE release_subs(_, _, _)

\* for (sub = 0; sub < sub_nr; sub++) list_objects_filter_release(&sub[sub])
release_subs(elems, i, cx) ==
    IF i > Len(elems) THEN cx
    ELSE The({release_subs(elems, i + 1, r.cx) :
                 r \in {list_objects_filter_release(elems[i], cx)}})

\* the release without its final memset: the struct keeps its pointers
release_without_memset(filter_options, cx) ==
    The({The({The({
        [fo |-> filter_options, cx |-> free(filter_options.sub.ptr, c3)] :
            c3 \in {release_subs(filter_options.sub.elems, 1, c2)}}) :
            c2 \in {free(filter_options.sparse_oid_value.ptr, c1)}}) :
            c1 \in {free(filter_options.filter_spec.ptr, cx)}})

list_objects_filter_release(filter_options, cx) ==
    The({The({The({
        [fo |-> EmptyNode, cx |-> free(filter_options.sub.ptr, c3)] :
            c3 \in {release_subs(filter_options.sub.elems, 1, c2)}}) :
            c2 \in {free(filter_options.sparse_oid_value.ptr, c1)}}) :
            c1 \in {free(filter_options.filter_spec.ptr, cx)}})

(***************************************************************************)
(* The parser.                                                             *)
(***************************************************************************)
RECURSIVE gently_parse_list_objects_filter(_, _, _)
RECURSIVE parse_combine_subfilter(_, _, _)
RECURSIVE parse_combine_filter(_, _, _)
RECURSIVE combine_loop(_, _, _, _)

\* the fall-through end of gently_parse_list_objects_filter (lines 91-94)
invalid_filter_spec(arg, cx) ==
    [ret |-> 1, fo |-> EmptyNode,
     cx |-> AddErr(cx, "invalid filter-spec '%s'", arg)]

\* ret: 0 success, 1 failure, -1 the BUG() abort
gently_parse_list_objects_filter(filter_options, arg, cx) ==
    IF filter_options.choice # "LOFC_DISABLED"
    THEN [ret |-> -1, fo |-> filter_options, cx |-> cx]
    ELSE IF arg = STR_blob_none
    THEN [ret |-> 0,
          fo |-> [filter_options EXCEPT !.choice = "LOFC_BLOB_NONE"],
          cx |-> cx]
    ELSE IF StartsWith(arg, STR_blob_limit)
    THEN LET n == git_parse_ulong(skip_prefix(arg, STR_blob_limit))
         IN  IF n.ok
             THEN [ret |-> 0,
                   fo |-> [filter_options EXCEPT
                              !.blob_limit_value = n.val,
                              !.choice = "LOFC_BLOB_LIMIT"],
                   cx |-> cx]
             ELSE invalid_filter_spec(arg, cx)
    ELSE IF StartsWith(arg, STR_tree)
    THEN LET n == git_parse_ulong(skip_prefix(arg, STR_tree))
         IN  IF ~n.ok
             THEN [ret |-> 1, fo |-> filter_options,
                   cx |-> AddErr(cx, "expected 'tree:<depth>'", <<>>)]
             ELSE [ret |-> 0,
                   fo |-> [filter_options EXCEPT
                              !.tree_exclude_depth = n.val,
                              !.choice = "LOFC_TREE_DEPTH"],
                   cx |-> cx]
    ELSE IF StartsWith(arg, STR_sparse_oid)
    THEN LET v0 == skip_prefix(arg, STR_sparse_oid)
             p == NewPtr(cx.heap)
         IN  IF get_oid_with_context(v0) = 0
             THEN [ret |-> 0,
                   fo |-> [filter_options EXCEPT
                              !.sparse_oid_value = [ptr |-> p, oid |-> v0],
                              !.choice = "LOFC_SPARSE_OID"],
                   cx |-> [cx EXCEPT !.heap = @ \cup {p}]]
             ELSE [ret |-> 0,
                   fo |-> [filter_options EXCEPT !.choice = "LOFC_SPARSE_OID"],
                   cx |-> cx]
    ELSE IF StartsWith(arg, STR_sparse_path)
    THEN [ret |-> 1, fo |-> filter_options,
          cx |-> AddErr(cx, "sparse:path filters support has been dropped",
                        <<>>)]
    ELSE IF StartsWith(arg, STR_combine)
    THEN parse_combine_filter(filter_options, skip_prefix(arg, STR_combine), cx)
    ELSE invalid_filter_spec(arg, cx)

\* alloc_nr(x)
alloc_nr(x) == ((x + 16) * 3) \div 2

\* sub_nr++; ALLOC_GROW(sub, sub_nr, sub_alloc); memset(&sub[new_index], 0)
grow_sub(filter_options, cx) ==
    LET nr == filter_options.sub_nr + 1
        grow == nr > filter_options.sub_alloc
        alloc == IF ~grow THEN filter_options.sub_alloc
                 ELSE IF alloc_nr(filter_options.sub_alloc) < nr THEN nr
                 ELSE alloc_nr(filter_options.sub_alloc)
        fresh == grow /\ filter_options.sub.ptr = 0
        p == IF fresh THEN NewPtr(cx.heap) ELSE filter_options.sub.ptr
    IN  [fo |-> [filter_options EXCEPT
                    !.sub_nr = nr, !.sub_alloc = alloc,
                    !.sub = [ptr |-> p, elems |-> Append(@.elems, EmptyNode)]],
         cx |-> IF fresh THEN [cx EXCEPT !.heap = @ \cup {p}] ELSE cx]

\* the call of the parser on the new child, once the token has passed
\* has_reserved_character
parse_decoded_subfilter(g, subspec, decoded) ==
    The({[ret |-> r.ret,
          fo |-> [g.fo EXCEPT !.sub.elems[g.fo.sub_nr] = r.fo],
          cx |-> r.cx] :
            r \in {gently_parse_list_objects_filter(
                       g.fo.sub.elems[g.fo.sub_nr], decoded,
                       [g.cx EXCEPT !.handed =
                           Append(@, [raw |-> subspec, text |-> decoded])])}})

parse_combine_subfilter(filter_options, subspec, cx) ==
    The({IF hr.ret # 0
         THEN [ret |-> 1, fo |-> g.fo,
               cx |-> AddErr(g.cx, "must escape char in sub-filter-spec: '%c'",
                             <<hr.ch>>)]
         ELSE parse_decoded_subfilter(g, subspec, decoded) :
            g \in {grow_sub(filter_options, cx)},
            decoded \in {url_percent_decode(subspec)},
            hr \in {has_reserved_character(subspec)}})

\* for (sub = 0; subspecs[sub] && !result; sub++) { ... }; a subspec that
\* is not the last one has its trailing "+" removed
combine_loop(filter_options, subspecs, sub, cx) ==
    IF sub > Len(subspecs)
    THEN [ret |-> 0, fo |-> filter_options, cx |-> cx]
    ELSE The({IF r.ret # 0 THEN r
              ELSE combine_loop(r.fo, subspecs, sub + 1, r.cx) :
                 r \in {parse_combine_subfilter(
                            filter_options,
                            IF sub < Len(subspecs)
                            THEN SubSeq(subspecs[sub], 1, Len(subspecs[sub]) - 1)
                            ELSE subspecs[sub],
                            cx)}})

\* the cleanup label of parse_combine_filter
combine_cleanup(filter_options, result, cx) ==
    IF result # 0
    THEN [ret |-> result, fo |-> EmptyNode,
          cx |-> list_objects_filter_release(filter_options, cx).cx]
    ELSE [ret |-> 0, fo |-> filter_options, cx |-> cx]

parse_combine_filter(filter_options, arg, cx) ==
    The({IF subspecs = <<>>
         THEN combine_cleanup(filter_options, 1,
                  AddErr(cx, "expected something after combine:", <<>>))
         ELSE The({combine_cleanup([r.fo EXCEPT !.choice = "LOFC_COMBINE"],
                                   r.ret, r.cx) :
                      r \in {combine_loop(filter_options, subspecs, 1, cx)}}) :
            subspecs \in {strbuf_split_str(arg, 43)}})

(***************************************************************************)
(* The entry points.                                                       *)
(***************************************************************************)
\* parse_list_objects_filter(): died is "no", or "die" when die() ended
\* the process (fo is then the struct as die() found it)
parse_list_objects_filter(filter_options, arg, h) ==
    IF filter_options.choice # "LOFC_DISABLED"
    THEN [ret |-> 1, fo |-> filter_options,
          cx |-> AddErr(Cx(h), "multiple filter-specs cannot be combined", <<>>),
          died |-> "die"]
    ELSE The({[ret |-> r.ret, fo |-> r.fo, cx |-> r.cx,
               died |-> IF r.ret # 0 THEN "die" ELSE "no"] :
                 r \in {gently_parse_list_objects_filter(
                            [filter_options EXCEPT
                                !.filter_spec = [ptr |-> NewPtr(h), str |-> arg]],
                            arg, Cx(h \cup {NewPtr(h)}))}})

\* "%lu"
RECURSIVE DecString(_)
DecString(n) ==
    IF n < 10 THEN <<48 + n>>
    ELSE DecString(n \div 10) \o <<48 + (n % 10)>>

\* the expansion without its last branch: only the numeric kinds are written
expand_numeric_only(filter) ==
    IF filter.choice = "LOFC_BLOB_LIMIT"
    THEN STR_blob_limit \o DecString(filter.blob_limit_value)
    ELSE IF filter.choice = "LOFC_TREE_DEPTH"
    THEN STR_tree \o DecString(filter.tree_exclude_depth)
    ELSE <<>>

expand_list_objects_filter_spec(filter) ==
    IF filter.choice = "LOFC_BLOB_LIMIT"
    THEN STR_blob_limit \o DecString(filter.blob_limit_value)
    ELSE IF filter.choice = "LOFC_TREE_DEPTH"
    THEN STR_tree \o DecString(filter.tree_exclude_depth)
    ELSE filter.filter_spec.str

EmptyConfig ==
    [repositoryformatversion |-> G_NULL, partialclone |-> G_NULL,
     partialclonefilter |-> G_NULL]

\* the registration without the check of the recorded remote
register_without_check(remote, filter_options, g) ==
    [died |-> "no",
     g |-> [remote |-> G(remote),
            default |-> G(filter_options.filter_spec.str),
            config |-> [repositoryformatversion |-> G(<<49>>),
                        partialclone |-> G(remote),
                        partialclonefilter |->
                            G(filter_options.filter_spec.str)]]]

\* partial_clone_register(): the globals and the configuration after the
\* call, given those before it
partial_clone_register(remote, filter_options, g) ==
    IF /\ ~g.remote.isnull
       /\ g.remote.str # <<>>
       /\ remote # g.remote.str
    THEN [died |-> "die", g |-> g]
    ELSE [died |-> "no",
          g |-> [remote |-> G(remote),
                 default |-> G(filter_options.filter_spec.str),
                 config |-> [repositoryformatversion |-> G(<<49>>),
                             partialclone |-> G(remote),
                             partialclonefilter |->
                                 G(filter_options.filter_spec.str)]]]

\* the default loaded the way parse_list_objects_filter parses: a failure
\* of the parser ends the process
load_default_or_die(filter_options, default, h) ==
    IF default.isnull
    THEN [ret |-> 0, fo |-> filter_options, cx |-> Cx(h), died |-> "no"]
    ELSE The({[ret |-> r.ret, fo |-> r.fo, cx |-> r.cx,
               died |-> IF r.ret # 0 THEN "die" ELSE "no"] :
                 r \in {gently_parse_list_objects_filter(
                            [filter_options EXCEPT
                                !.filter_spec =
                                    [ptr |-> NewPtr(h), str |-> default.str]],
                            default.str, Cx(h \cup {NewPtr(h)}))}})

\* partial_clone_get_default_filter_spec(): the result of the parse is
\* dropped; only the BUG() abort of the parser ends the process
partial_clone_get_default_filter_spec(filter_options, default, h) ==
    IF default.isnull
    THEN [ret |-> 0, fo |-> filter_options, cx |-> Cx(h), died |-> "no"]
    ELSE The({[ret |-> r.ret, fo |-> r.fo, cx |-> r.cx,
               died |-> IF r.ret = -1 THEN "BUG" ELSE "no"] :
                 r \in {gently_parse_list_objects_filter(
                            [filter_options EXCEPT
                                !.filter_spec =
                                    [ptr |-> NewPtr(h), str |-> default.str]],
                            default.str, Cx(h \cup {NewPtr(h)}))}})

(***************************************************************************)
(* Inputs.                                                                 *)
(***************************************************************************)
RECURSIVE Concat(_)
Concat(ss) == IF ss = <<>> THEN <<>> ELSE Head(ss) \o Concat(Tail(ss))

\* "blob:none", "blob:limit=", "tree:", "tree:1", "+tree:1",
\* "sparse:oid=x", "sparse:path=", "combine:", "1", "+", "%2B", " ", the
\* byte 0xC3, "combine%3Ablob%3Anone%2Btree%3A1"
Frags ==
    {STR_blob_none, STR_blob_limit, STR_tree, STR_tree \o <<49>>,
     <<43>> \o STR_tree \o <<49>>, STR_sparse_oid \o <<120>>,
     STR_sparse_path, STR_combine, <<49>>, <<43>>, <<37, 50, 66>>, <<32>>,
     <<195>>,
     <<99, 111, 109, 98, 105, 110, 101, 37, 51, 65, 98, 108, 111, 98, 37, 51,
       65, 110, 111, 110, 101, 37, 50, 66, 116, 114, 101, 101, 37, 51, 65, 49>>}

FragSeqs == UNION {[1..n -> Frags] : n \in 0..MaxFrags}

\* the input texts of ParseSpec: up to MaxFrags fragments, alone or as
\* the body of a combine
Texts == {Concat(fs) : fs \in FragSeqs}
             \cup {STR_combine \o Concat(fs) : fs \in FragSeqs}

\* the input texts of Spec
SampleTexts ==
    {STR_blob_none,                                   \* blob:none
     STR_blob_limit \o <<48, 48, 55>>,                \* blob:limit=007
     STR_blob_limit \o <<120>>,                       \* blob:limit=x
     STR_tree \o <<48>>,                              \* tree:0
     STR_tree \o <<120>>,                             \* tree:x
     STR_sparse_oid \o <<120>>,                       \* sparse:oid=x
     STR_sparse_path \o <<120>>,                      \* sparse:path=x
     <<120>>,                                         \* x
     STR_combine,                                     \* combine:
     STR_combine \o STR_blob_none \o <<43>> \o STR_tree \o <<49>>,
                                                      \* combine:blob:none+tree:1
     STR_combine \o STR_sparse_oid \o <<120, 43>> \o STR_sparse_oid \o <<120>>,
                                                      \* combine:sparse:oid=x+sparse:oid=x
     STR_combine \o STR_sparse_oid \o <<120, 43>> \o STR_tree \o <<120>>,
                                                      \* combine:sparse:oid=x+tree:x
     STR_combine \o STR_blob_none \o <<43>>
         \o <<99, 111, 109, 98, 105, 110, 101, 37, 51, 65>> \o STR_sparse_oid
         \o <<120, 37, 50, 66>> \o <<116, 114, 101, 101, 37, 51, 65, 49>>}
                          \* combine:blob:none+combine%3Asparse:oid=x%2Btree%3A1

STR_origin == <<111, 114, 105, 103, 105, 110>>
STR_upstream == <<117, 112, 115, 116, 114, 101, 97, 109>>

\* the remote names given to register: "", "origin", "upstream"
Remotes == {<<>>, STR_origin, STR_upstream}

\* the bytes tokens of ValidatorSpec are made of: the reserved
\* punctuation, 0x01 0x09 0x20, % + - : = a 0x7F, and 0x80 0xC3 0xFF
SampleBytes ==
    Range(RESERVED_NON_WS) \cup {1, 9, 32} \cup {37, 43, 45, 58, 61, 97, 127}
        \cup {128, 195, 255}

Tokens == UNION {[1..n -> SampleBytes] : n \in 0..MaxTokLen}

(***************************************************************************)
(* State machine.                                                          *)
(***************************************************************************)
Globals ==
    [remote |-> repository_format_partial_clone,
     default |-> core_partial_clone_filter_default,
     config |-> config]

NoLast ==
    [op |-> "none", prev |-> "none", arg |-> <<>>, ret |-> 0, pre |-> EmptyNode,
     preheap |-> {}, preglob |-> [remote |-> G_NULL, default |-> G_NULL,
                                  config |-> EmptyConfig],
     out |-> <<>>, freed |-> <<>>, dfree |-> FALSE, handed |-> <<>>,
     errbuf |-> <<>>]

Record(op, a, ret, cx, out) ==
    [op |-> op, prev |-> last.op, arg |-> a, ret |-> ret, pre |-> fo,
     preheap |-> heap,
     preglob |-> Globals, out |-> out, freed |-> cx.freed,
     dfree |-> cx.dfree, handed |-> cx.handed, errbuf |-> cx.errbuf]

UnchangedGlobals ==
    UNCHANGED <<core_partial_clone_filter_default,
                repository_format_partial_clone, config>>

UnchangedEnv == UNCHANGED <<charSigned, odb, input>>

\* a caller runs parse_list_objects_filter(&fo, t)
Parse(t) ==
    /\ dead = "no"
    /\ Cardinality(heap) < MaxLive
    /\ \E r \in {parse_list_objects_filter(fo, t, heap)} :
           /\ fo' = r.fo
           /\ heap' = r.cx.heap
           /\ dead' = r.died
           /\ last' = Record("parse", t, r.ret, r.cx, <<>>)
    /\ UnchangedGlobals
    /\ UnchangedEnv

ParseAny == \E t \in SampleTexts : Parse(t)

ParseInput == Parse(input)

\* a caller runs partial_clone_get_default_filter_spec(&fo)
LoadDefault ==
    /\ dead = "no"
    /\ Cardinality(heap) < MaxLive
    /\ \E r \in {partial_clone_get_default_filter_spec(
                    fo, core_partial_clone_filter_default, heap)} :
           /\ fo' = r.fo
           /\ heap' = r.cx.heap
           /\ dead' = r.died
           /\ last' = Record("load_default",
                             core_partial_clone_filter_default.str,
                             r.ret, r.cx, <<>>)
    /\ UnchangedGlobals
    /\ UnchangedEnv

\* a caller runs expand_list_objects_filter_spec(&fo, &buf) on a filter
\* that has been chosen
Expand ==
    /\ dead = "no"
    /\ fo.choice # "LOFC_DISABLED"
    /\ last' = Record("expand", <<>>, 0, Cx(heap),
                      expand_list_objects_filter_spec(fo))
    /\ UNCHANGED <<fo, heap, dead>>
    /\ UnchangedGlobals
    /\ UnchangedEnv

\* a caller runs list_objects_filter_release(&fo)
Release ==
    /\ dead = "no"
    /\ \E r \in {list_objects_filter_release(fo, Cx(heap))} :
           /\ fo' = r.fo
           /\ heap' = r.cx.heap
           /\ last' = Record("release", <<>>, 0, r.cx, <<>>)
    /\ UNCHANGED dead
    /\ UnchangedGlobals
    /\ UnchangedEnv

\* a caller runs partial_clone_register(remote, &fo) with a filter that
\* holds its text
Register ==
    /\ dead = "no"
    /\ fo.filter_spec.ptr # 0
    /\ \E remote \in Remotes :
          \E r \in {partial_clone_register(remote, fo, Globals)} :
              /\ repository_format_partial_clone' = r.g.remote
              /\ core_partial_clone_filter_default' = r.g.default
              /\ config' = r.g.config
              /\ dead' = r.died
              /\ last' = Record("register", remote,
                                IF r.died = "no" THEN 0 ELSE 1, Cx(heap), <<>>)
    /\ UNCHANGED <<fo, heap>>
    /\ UnchangedEnv

\* has_reserved_character() on the token under test
Validate ==
    /\ dead = "no"
    /\ \E r \in {has_reserved_character(input)} :
           last' = Record("has_reserved_character", input, r.ret, Cx(heap),
                          <<r.ch>>)
    /\ UNCHANGED <<fo, heap, dead>>
    /\ UnchangedGlobals
    /\ UnchangedEnv

InitCommon ==
    /\ fo = EmptyNode
    /\ heap = {}
    /\ repository_format_partial_clone = G_NULL
    /\ config = EmptyConfig
    /\ charSigned \in BOOLEAN
    /\ odb \in {{}, {<<120>>}}
    /\ dead = "no"
    /\ last = NoLast

\* the process after start-up: the configuration may hold a default
\* filter text
Init ==
    /\ InitCommon
    /\ input = <<>>
    /\ core_partial_clone_filter_default
           \in {G_NULL} \cup {G(t) : t \in SampleTexts}

Next == ParseAny \/ LoadDefault \/ Expand \/ Release \/ Register

Spec == Init /\ [][Next]_vars

\* one input text, given to the parser by parse and by load_default
ParseInit ==
    /\ InitCommon
    /\ input \in Texts
    /\ core_partial_clone_filter_default = G(input)

ParseNext == ParseInput \/ LoadDefault \/ Expand

ParseSpec == ParseInit /\ [][ParseNext]_vars

\* one token, given to the validator
ValidatorInit ==
    /\ InitCommon
    /\ input \in Tokens
    /\ core_partial_clone_filter_default = G_NULL

ValidatorNext == Validate

ValidatorSpec == ValidatorInit /\ [][ValidatorNext]_vars

(***************************************************************************)
(* Notions the properties are stated in.                                   *)
(***************************************************************************)
\* the addresses of the buffers a node owns, its descendants' included
RECURSIVE Owned(_)
Owned(n) ==
    ({n.filter_spec.ptr, n.sparse_oid_value.ptr, n.sub.ptr} \ {0})
        \cup UNION {Owned(n.sub.elems[i]) : i \in 1..Len(n.sub.elems)}

\* a node without its addresses and without its text: kind and payload
RECURSIVE Payload(_)
Payload(n) ==
    [choice |-> n.choice,
     blob_limit_value |-> n.blob_limit_value,
     tree_exclude_depth |-> n.tree_exclude_depth,
     resolved |-> n.sparse_oid_value.ptr # 0,
     oid |-> n.sparse_oid_value.oid,
     sub |-> [i \in 1..Len(n.sub.elems) |-> Payload(n.sub.elems[i])]]

\* try_parse on a freshly constructed node
TryParseFresh(t) == gently_parse_list_objects_filter(EmptyNode, t, Cx({}))

\* the parser ran on an unkinded root node and returned
ParserRan ==
    /\ last.op \in {"parse", "load_default"}
    /\ last.pre.choice = "LOFC_DISABLED"
    /\ ~(last.op = "load_default" /\ last.preglob.default.isnull)

\* C1: whenever the parser returns failure, the node it was given is empty
\* again: no kind, no original_text, no payload, no children
C1_FailedParseLeavesEmpty ==
    (ParserRan /\ last.ret = 1) => fo = EmptyNode

\* the tokens between the '+' characters of body: one more than there are
\* '+' characters, empty tokens included
PlusTokens(body) ==
    LET plus == {i \in 1..Len(body) : body[i] = 43}
        bounds == plus \cup {Len(body) + 1}
    IN  [k \in 1..Cardinality(bounds) |->
            SubSeq(body, IF k = 1 THEN 1 ELSE Kth(bounds, k - 1) + 1,
                   Kth(bounds, k) - 1)]

\* C2: after a successful parse of "combine:<body>" the children are, in
\* order, the results of parsing the decoded tokens between the '+'
\* characters of the body, so there are (number of '+') + 1 of them
C2_ChildrenAreTheTokens ==
    (ParserRan /\ last.ret = 0 /\ fo.choice = "LOFC_COMBINE") =>
        LET toks == PlusTokens(skip_prefix(last.arg, STR_combine))
        IN  /\ fo.sub_nr = Len(toks)
            /\ Len(fo.sub.elems) = Len(toks)
            /\ \A i \in 1..Len(toks) :
                  LET r == TryParseFresh(url_percent_decode(toks[i]))
                  IN  r.ret = 0 /\ Payload(fo.sub.elems[i]) = Payload(r.fo)

\* C3: expand of a parsed node whose kind is neither BLOB_LIMIT nor
\* TREE_DEPTH gives back the parsed text, byte for byte
C3_ExpandRoundTrip ==
    (/\ last.op = "expand"
     /\ fo.choice \notin {"LOFC_BLOB_LIMIT", "LOFC_TREE_DEPTH"})
        => last.out = input

C3_Witness ==
    /\ last.op = "expand"
    /\ fo.choice = "LOFC_COMBINE"
    /\ fo.sub_nr = 2
    /\ fo.sub.elems[1].choice = "LOFC_SPARSE_OID"
    /\ last.out = input

\* the number of '+' bytes in s
PlusCount(s) == Cardinality({i \in 1..Len(s) : s[i] = 43})

\* the number of %2B escapes in s
EscapedPlusCount(s) ==
    Cardinality({i \in 1..Len(s) :
                    IsEscape(s, i) /\ 16 * HexVal(s[i + 1]) + HexVal(s[i + 2]) = 43})

\* C4: every '+' in a text handed to the recursive parser was written as
\* %2B in the token it was decoded from
C4_PlusOnlyFromEscape ==
    \A k \in 1..Len(last.handed) :
        PlusCount(last.handed[k].text) = EscapedPlusCount(last.handed[k].raw)

\* is the byte b one that has to be escaped: <= 0x20 or reserved punctuation
MustEscape(b) == b <= 32 \/ b \in Range(RESERVED_NON_WS)

\* C5: the validator rejects a token exactly when it holds a byte <= 0x20
\* or a reserved punctuation character, and reports the leftmost one
C5_ValidatorRejectsExactlyReserved ==
    last.op = "has_reserved_character" =>
        /\ (last.ret = 1) <=> \E i \in 1..Len(input) : MustEscape(input[i])
        /\ last.ret = 1 =>
              \E i \in 1..Len(input) :
                  /\ MustEscape(input[i])
                  /\ \A j \in 1..(i - 1) : ~MustEscape(input[j])
                  /\ last.out = <<input[i]>>

\* position of address p in the sequence of freed addresses
FreedAt(p) == CHOOSE i \in 1..Len(last.freed) : last.freed[i] = p

\* every buffer of every descendant of n is freed before n's child array
RECURSIVE ChildrenFreedFirst(_)
ChildrenFreedFirst(n) ==
    \A i \in 1..Len(n.sub.elems) :
        /\ \A b \in Owned(n.sub.elems[i]) : FreedAt(b) < FreedAt(n.sub.ptr)
        /\ ChildrenFreedFirst(n.sub.elems[i])

\* C6: release leaves the node as freshly constructed, frees what the tree
\* owned (descendants before the parent's child array) and nothing else,
\* does nothing on an empty node, and the node can then be parsed into
C6_ReleaseResets ==
    /\ last.op = "release" =>
          /\ fo = EmptyNode
          /\ heap = last.preheap \ Owned(last.pre)
          /\ Range(last.freed) = Owned(last.pre)
          /\ Len(last.freed) = Cardinality(Owned(last.pre))
          /\ ~last.dfree
          /\ ChildrenFreedFirst(last.pre)
          /\ last.pre = EmptyNode => (heap = last.preheap /\ last.freed = <<>>)
    /\ (last.op = "parse" /\ last.prev = "release") =>
          /\ last.ret = TryParseFresh(last.arg).ret
          /\ last.ret = 0 => Payload(fo) = Payload(TryParseFresh(last.arg).fo)

C6_Witness ==
    /\ last.op = "release"
    /\ last.prev = "release"

C6_WitnessTree ==
    /\ last.op = "release"
    /\ last.pre.choice = "LOFC_COMBINE"
    /\ \E i \in 1..Len(last.pre.sub.elems) :
          /\ last.pre.sub.elems[i].choice = "LOFC_COMBINE"
          /\ last.pre.sub.elems[i].sub.elems[1].sparse_oid_value.ptr # 0

C6_WitnessReparse ==
    /\ last.op = "parse"
    /\ last.prev = "release"
    /\ last.ret = 0
    /\ fo.choice = "LOFC_COMBINE"

\* kind none and no payload
Unpopulated(n) == Payload(n) = Payload(EmptyNode)

\* C7: load_default on an unkinded node never ends the process; with no
\* cached text the node is unchanged, with a text that fails to parse it
\* is left without kind and payload, otherwise it gets the kind and
\* payload try_parse gives for that text
C7_LoadDefaultSwallows ==
    (last.op = "load_default" /\ last.pre.choice = "LOFC_DISABLED") =>
        /\ dead = "no"
        /\ IF last.preglob.default.isnull
           THEN fo = last.pre /\ heap = last.preheap
           ELSE LET r == TryParseFresh(last.preglob.default.str)
                IN  /\ r.ret # 0 => Unpopulated(fo)
                    /\ r.ret = 0 => Payload(fo) = Payload(r.fo)

C7_Witness ==
    /\ last.op = "load_default"
    /\ last.pre.choice = "LOFC_DISABLED"
    /\ last.ret = 1
    /\ StartsWith(last.arg, STR_combine)
    /\ Len(last.arg) > Len(STR_combine)

\* C8 as stated: register dies, changing nothing, whenever a recorded name
\* (the empty one included) differs from the given one, and otherwise
\* succeeds and records the name and the filter's text
C8_RegisterConflictAnyName ==
    last.op = "register" =>
        IF ~last.preglob.remote.isnull /\ last.preglob.remote.str # last.arg
        THEN dead = "die" /\ Globals = last.preglob
        ELSE /\ dead = "no"
             /\ repository_format_partial_clone = G(last.arg)
             /\ core_partial_clone_filter_default = G(fo.filter_spec.str)

\* C8 amended: register dies, changing nothing, whenever a recorded
\* non-empty name differs from the given one; with no name or the empty
\* name recorded, or the same name, it succeeds and records the name and
\* the filter's text
C8_RegisterConflictNonEmptyName ==
    last.op = "register" =>
        IF /\ ~last.preglob.remote.isnull
           /\ last.preglob.remote.str # <<>>
           /\ last.preglob.remote.str # last.arg
        THEN dead = "die" /\ Globals = last.preglob
        ELSE /\ dead = "no"
             /\ repository_format_partial_clone = G(last.arg)
             /\ core_partial_clone_filter_default = G(fo.filter_spec.str)
             /\ config = [repositoryformatversion |-> G(<<49>>),
                          partialclone |-> G(last.arg),
                          partialclonefilter |-> G(fo.filter_spec.str)]

C8_Witness ==
    /\ last.op = "register"
    /\ dead = "die"
    /\ last.preglob.remote = G(STR_origin)
    /\ last.arg = STR_upstream

C8_WitnessSameName ==
    /\ last.op = "register"
    /\ last.prev = "register"
    /\ dead = "no"
    /\ last.preglob.remote = G(STR_origin)
    /\ last.arg = STR_origin

\* every node with a kind holds its text
RECURSIVE AllHaveText(_)
AllHaveText(n) ==
    /\ n.choice # "LOFC_DISABLED" => n.filter_spec.ptr # 0
    /\ \A i \in 1..Len(n.sub.elems) : AllHaveText(n.sub.elems[i])

\* C9: after a successful parse every node of the tree that has a kind
\* has its original_text
C9_EveryNodeHasText ==
    (ParserRan /\ last.ret = 0) => AllHaveText(fo)

\* C10: no address is freed twice, and every live buffer is owned by the
\* node (so none is left once the node is empty)
C10_NoDoubleFreeNoLeak ==
    dead = "no" => (~last.dfree /\ heap = Owned(fo))

====
